---- MODULE Spec2Model ----
(***************************************************************************)
(* The slice analyzer of schollz/onsets: AnalyzeSlices and the functions   *)
(* it is built from (src/slice_analyzer_test.go, lines 176-782, the        *)
(* version with Method, MinConsensusClusterSize, UseMinimumSpacing and     *)
(* MinimumSpacing).                                                        *)
(*                                                                         *)
(* Representation.                                                         *)
(*  - A float64 time in seconds is an integer number of ticks,             *)
(*    TicksPerSec ticks to the second; arithmetic is exact (no rounding).  *)
(*  - A sample is the integer PCM value v read by the decoder and stands   *)
(*    for v/32768.0.  Every comparison the code makes on sample values     *)
(*    (energies, variance differences) is homogeneous of degree two, so    *)
(*    the common factor 1/32768^2 cancels.                                 *)
(*  - A variance or a squared energy is a fraction <<num, den>>, den > 0.  *)
(*  - Go slices are 0-based, TLA+ sequences 1-based: samples[i] of the     *)
(*    code is samples[i+1] here (operator At).                             *)
(*  - The onset detector (NewOnset, Do, GetLastS: onset.go, peakpicker.go) *)
(*    is not among the sources; it is modelled from sections 4.7, 4.8, 6   *)
(*    and 7 of the specification, and what it answers for a buffer is an   *)
(*    input of the analyzer (variable det).                                *)
(***************************************************************************)
EXTENDS Integers, Sequences, FiniteSets, TLC

\* ------------------------------------------------------------------ units

\* ticks in one second: 200 samples/s * 2520 ticks/sample, so that a mean of
\* up to ten sample-aligned times is a whole number of ticks
TicksPerSec == 504000

\* int(x) of Go for the quotient n/d, d > 0: truncation toward zero
Trunc(n, d) == IF n >= 0 THEN n \div d ELSE -((-n) \div d)

\* int(onsetTime * float64(sampleRate))
SampleOfTime(t, sampleRate) == Trunc(t * sampleRate, TicksPerSec)

\* float64(position) / float64(sampleRate)
TimeOfSample(p, sampleRate) == (p * TicksPerSec) \div sampleRate

\* int(windowMs * float64(sampleRate) / 1000.0)
MsToSamples(ms, sampleRate) == Trunc(ms * sampleRate, 1000)

\* ms / 1000.0, in ticks
MsToTicks(ms) == (ms * TicksPerSec) \div 1000

\* fractions <<num, den>> with den > 0
FracLess(a, b) == a[1] * b[2] < b[1] * a[2]
FracSub(a, b) == <<a[1] * b[2] - b[1] * a[2], a[2] * b[2]>>
FracZero == <<0, 1>>

\* samples[i] of the code (0-based)
At(samples, i) == samples[i + 1]

RECURSIVE SumRange(_, _, _)
\* sum of samples[i] for start <= i < end
SumRange(samples, start, end) ==
    IF start >= end THEN 0
    ELSE At(samples, start) + SumRange(samples, start + 1, end)

RECURSIVE SumSquares(_, _, _)
\* sum of samples[i]^2 for start <= i < end
SumSquares(samples, start, end) ==
    IF start >= end THEN 0
    ELSE At(samples, start) * At(samples, start) + SumSquares(samples, start + 1, end)

RECURSIVE SumSeq(_)
SumSeq(s) == IF s = << >> THEN 0 ELSE Head(s) + SumSeq(Tail(s))

RECURSIVE Concat(_)
\* the concatenation of a sequence of sequences
Concat(ss) == IF ss = << >> THEN << >> ELSE Head(ss) \o Concat(Tail(ss))

\* the elements of a sequence
Range(s) == {s[i] : i \in 1..Len(s)}

RECURSIVE SetToSortedSeq(_)
\* the elements of a finite set of numbers, ascending
SetToSortedSeq(S) ==
    IF S = {} THEN << >>
    ELSE LET least == CHOOSE x \in S : \A y \in S : x <= y
         IN  <<least>> \o SetToSortedSeq(S \ {least})

StrictlyIncreasing(s) == \A i \in 1..(Len(s) - 1) : s[i] < s[i + 1]

\* ------------------------------------------------------- program constants

\* findBestOnsets, findAllOnsets, findConsensusOnsets: bufSize := uint(512),
\* hopSize := uint(256).  The model keeps the ratio bufSize = 2 * hopSize and
\* scales the hop, so that a refinement window of a few tens of samples covers
\* several hops, as the 4410-sample default window covers 17 hops of 256.
hopSize == 4
bufSize == 2 * hopSize

\* detectAllOnsets: minioi := 10.0 (milliseconds)
minioi == 10

\* calculateOnsetEnergy: windowMs := 50.0
energyWindowMs == 50

\* findOptimalOnsetPosition: minMargin := 5, and the window of fewer than 10
\* samples that is left alone
minMargin == 5
minWindow == 10

\* findConsensusOnsets: clusterThreshold := 0.05 (seconds), in ticks
clusterThreshold == (5 * TicksPerSec) \div 100

\* findConsensusOnsets: the minimum cluster size used when the option is <= 0
defaultMinClusterSize == 3

\* findConsensusOnsets: methods
methods ==
    <<"energy", "hfc", "complex", "phase", "wphase", "specdiff", "kl", "mkl", "specflux">>

\* ------------------------------------------------------ position refinement

\* calculateVariance: the variance of samples[start..end), as the fraction
\* (n * sum x^2 - (sum x)^2) / n^2, which is sum (x - mean)^2 / n
calculateVariance(samples, start, end) ==
    IF start >= end \/ start < 0 \/ end > Len(samples) THEN FracZero
    ELSE LET count == end - start
             sum == SumRange(samples, start, end)
             sq == SumSquares(samples, start, end)
         IN  <<count * sq - sum * sum, count * count>>

\* the difference (right - left) findOptimalOnsetPosition computes for a split
VarianceDiff(samples, windowStart, midpoint, windowEnd) ==
    FracSub(calculateVariance(samples, midpoint, windowEnd),
            calculateVariance(samples, windowStart, midpoint))

RECURSIVE SearchMidpoint_LastOfEqual(_, _, _, _, _, _)
\* the loop taking a midpoint whose difference equals the maximum so far
\* (diff >= maxDiff): the last of the equal maxima
SearchMidpoint_LastOfEqual(samples, windowStart, windowEnd, midpoint, best, maxDiff) ==
    IF midpoint >= windowEnd - minMargin THEN best.position
    ELSE LET diff == VarianceDiff(samples, windowStart, midpoint, windowEnd)
             better == (~best.hasMax) \/ ~FracLess(diff, maxDiff)
         IN  IF better
             THEN SearchMidpoint_LastOfEqual(samples, windowStart, windowEnd, midpoint + 1,
                                             [position |-> midpoint, hasMax |-> TRUE], diff)
             ELSE SearchMidpoint_LastOfEqual(samples, windowStart, windowEnd, midpoint + 1,
                                             best, maxDiff)

RECURSIVE SearchMidpoint(_, _, _, _, _, _)
\* the loop of findOptimalOnsetPosition from midpoint on; hasMax is FALSE while
\* maxDiff is still -math.MaxFloat64
SearchMidpoint(samples, windowStart, windowEnd, midpoint, best, maxDiff) ==
    IF midpoint >= windowEnd - minMargin THEN best.position
    ELSE LET diff == VarianceDiff(samples, windowStart, midpoint, windowEnd)
             better == (~best.hasMax) \/ FracLess(maxDiff, diff)
         IN  IF better
             THEN SearchMidpoint(samples, windowStart, windowEnd, midpoint + 1,
                                 [position |-> midpoint, hasMax |-> TRUE], diff)
             ELSE SearchMidpoint(samples, windowStart, windowEnd, midpoint + 1,
                                 best, maxDiff)

\* the window reaching a whole window length to each side of the onset
RefineWindow_WholeWindowEachSide(samples, sampleRate, onsetTime, windowMs) ==
    LET onsetSample == SampleOfTime(onsetTime, sampleRate)
        halfWindow == MsToSamples(windowMs, sampleRate)
        ws == onsetSample - halfWindow
        we == onsetSample + halfWindow
    IN  [onsetSample |-> onsetSample,
         start |-> IF ws < 0 THEN 0 ELSE ws,
         end |-> IF we > Len(samples) THEN Len(samples) ELSE we]

\* the window findOptimalOnsetPosition searches, after clamping
RefineWindow(samples, sampleRate, onsetTime, windowMs) ==
    LET onsetSample == SampleOfTime(onsetTime, sampleRate)
        halfWindow == Trunc(MsToSamples(windowMs, sampleRate), 2)
        ws == onsetSample - halfWindow
        we == onsetSample + halfWindow
    IN  [onsetSample |-> onsetSample,
         start |-> IF ws < 0 THEN 0 ELSE ws,
         end |-> IF we > Len(samples) THEN Len(samples) ELSE we]

\* findOptimalOnsetPosition returning the refined position in milliseconds
findOptimalOnsetPosition_Milliseconds(samples, sampleRate, onsetTime, windowMs) ==
    LET w == RefineWindow(samples, sampleRate, onsetTime, windowMs)
    IN  IF w.end - w.start < minWindow THEN onsetTime
        ELSE 1000 * TimeOfSample(
                 SearchMidpoint(samples, w.start, w.end, w.start + minMargin,
                                [position |-> w.onsetSample, hasMax |-> FALSE],
                                FracZero),
                 sampleRate)

findOptimalOnsetPosition(samples, sampleRate, onsetTime, windowMs) ==
    LET w == RefineWindow(samples, sampleRate, onsetTime, windowMs)
    IN  IF w.end - w.start < minWindow THEN onsetTime
        ELSE TimeOfSample(
                 SearchMidpoint(samples, w.start, w.end, w.start + minMargin,
                                [position |-> w.onsetSample, hasMax |-> FALSE],
                                FracZero),
                 sampleRate)

\* the indices i of the samples[i] calculateVariance reads (lines 733, 740)
VarianceReads(samples, start, end) ==
    IF start >= end \/ start < 0 \/ end > Len(samples) THEN {}
    ELSE start..(end - 1)

\* the indices findOptimalOnsetPosition reads, through calculateVariance, for
\* every midpoint of its loop
RefineReads(samples, sampleRate, onsetTime, windowMs) ==
    LET w == RefineWindow(samples, sampleRate, onsetTime, windowMs)
    IN  IF w.end - w.start < minWindow THEN {}
        ELSE UNION {VarianceReads(samples, w.start, midpoint)
                        \cup VarianceReads(samples, midpoint, w.end) :
                    midpoint \in (w.start + minMargin)..(w.end - minMargin - 1)}

optimizeOnsetPositions(samples, sampleRate, onsets, windowMs) ==
    [i \in 1..Len(onsets) |->
        findOptimalOnsetPosition(samples, sampleRate, onsets[i], windowMs)]

\* ------------------------------------------------------------ local energy

\* calculateOnsetEnergy, squared: sumSquares / count, or 0 for an empty window
calculateOnsetEnergy(samples, sampleRate, onsetTime) ==
    LET windowSamples == MsToSamples(energyWindowMs, sampleRate)
        onsetSample == SampleOfTime(onsetTime, sampleRate)
        startSample == IF onsetSample < 0 THEN 0 ELSE onsetSample
        endSample == IF onsetSample + windowSamples > Len(samples)
                     THEN Len(samples) ELSE onsetSample + windowSamples
        count == IF endSample > startSample THEN endSample - startSample ELSE 0
    IN  IF count = 0 THEN FracZero
        ELSE <<SumSquares(samples, startSample, endSample), count>>

\* the window of calculateOnsetEnergy without the clamping of lines 602-607
EnergyWindow_Unclamped(samples, sampleRate, onsetTime) ==
    LET windowSamples == MsToSamples(energyWindowMs, sampleRate)
        onsetSample == SampleOfTime(onsetTime, sampleRate)
    IN  [start |-> onsetSample, end |-> onsetSample + windowSamples]

\* the window calculateOnsetEnergy sums over, after clamping (lines 593-607)
EnergyWindow(samples, sampleRate, onsetTime) ==
    LET windowSamples == MsToSamples(energyWindowMs, sampleRate)
        onsetSample == SampleOfTime(onsetTime, sampleRate)
    IN  [start |-> IF onsetSample < 0 THEN 0 ELSE onsetSample,
         end |-> IF onsetSample + windowSamples > Len(samples)
                 THEN Len(samples) ELSE onsetSample + windowSamples]

\* the indices i of the samples[i] calculateOnsetEnergy reads (lines 612-615)
EnergyReads(samples, sampleRate, onsetTime) ==
    LET w == EnergyWindow(samples, sampleRate, onsetTime)
    IN  w.start..(w.end - 1)

\* --------------------------------------------------------- minimum spacing

RECURSIVE SpacingLoop(_, _, _, _)
\* the loop of applyMinimumSpacing from index i (1-based) on
SpacingLoop(onsets, minimumSpacingSec, i, filtered) ==
    IF i > Len(onsets) THEN filtered
    ELSE LET timeDiff == onsets[i] - filtered[Len(filtered)]
         IN  IF timeDiff >= minimumSpacingSec
             THEN SpacingLoop(onsets, minimumSpacingSec, i + 1, Append(filtered, onsets[i]))
             ELSE SpacingLoop(onsets, minimumSpacingSec, i + 1, filtered)

RECURSIVE SpacingLoopFromFirst(_, _, _, _)
SpacingLoopFromFirst(onsets, minimumSpacingSec, i, filtered) ==
    IF i > Len(onsets) THEN filtered
    ELSE LET timeDiff == onsets[i] - filtered[1]
         IN  IF timeDiff >= minimumSpacingSec
             THEN SpacingLoopFromFirst(onsets, minimumSpacingSec, i + 1,
                                       Append(filtered, onsets[i]))
             ELSE SpacingLoopFromFirst(onsets, minimumSpacingSec, i + 1, filtered)

\* applyMinimumSpacing measuring each onset from the first kept onset instead
\* of the last kept one
applyMinimumSpacing_FromFirst(onsets, minimumSpacingMs) ==
    IF Len(onsets) = 0 THEN onsets
    ELSE SpacingLoopFromFirst(onsets, MsToTicks(minimumSpacingMs), 2, <<onsets[1]>>)

RECURSIVE SpacingLoopInverted(_, _, _, _)
SpacingLoopInverted(onsets, minimumSpacingSec, i, filtered) ==
    IF i > Len(onsets) THEN filtered
    ELSE LET timeDiff == onsets[i] - filtered[Len(filtered)]
         IN  IF timeDiff <= minimumSpacingSec
             THEN SpacingLoopInverted(onsets, minimumSpacingSec, i + 1,
                                      Append(filtered, onsets[i]))
             ELSE SpacingLoopInverted(onsets, minimumSpacingSec, i + 1, filtered)

\* applyMinimumSpacing with the comparison inverted (keeps the close onsets)
applyMinimumSpacing_Inverted(onsets, minimumSpacingMs) ==
    IF Len(onsets) = 0 THEN onsets
    ELSE SpacingLoopInverted(onsets, MsToTicks(minimumSpacingMs), 2, <<onsets[1]>>)

RECURSIVE SpacingLoopFromZero(_, _, _, _)
SpacingLoopFromZero(onsets, minimumSpacingSec, i, lastKept) ==
    IF i > Len(onsets) THEN << >>
    ELSE IF onsets[i] - lastKept >= minimumSpacingSec
         THEN <<onsets[i]>> \o SpacingLoopFromZero(onsets, minimumSpacingSec, i + 1, onsets[i])
         ELSE SpacingLoopFromZero(onsets, minimumSpacingSec, i + 1, lastKept)

\* applyMinimumSpacing with the first onset filtered like the others, measured
\* from time zero
applyMinimumSpacing_FromZero(onsets, minimumSpacingMs) ==
    IF Len(onsets) = 0 THEN onsets
    ELSE SpacingLoopFromZero(onsets, MsToTicks(minimumSpacingMs), 1, 0)

RECURSIVE SpacingLoopFromPrevious(_, _, _, _)
SpacingLoopFromPrevious(onsets, minimumSpacingSec, i, filtered) ==
    IF i > Len(onsets) THEN filtered
    ELSE LET timeDiff == onsets[i] - onsets[i - 1]
         IN  IF timeDiff >= minimumSpacingSec
             THEN SpacingLoopFromPrevious(onsets, minimumSpacingSec, i + 1,
                                          Append(filtered, onsets[i]))
             ELSE SpacingLoopFromPrevious(onsets, minimumSpacingSec, i + 1, filtered)

\* applyMinimumSpacing measuring each onset from the onset before it in the
\* list, kept or not
applyMinimumSpacing_FromPrevious(onsets, minimumSpacingMs) ==
    IF Len(onsets) = 0 THEN onsets
    ELSE SpacingLoopFromPrevious(onsets, MsToTicks(minimumSpacingMs), 2, <<onsets[1]>>)

applyMinimumSpacing(onsets, minimumSpacingMs) ==
    IF Len(onsets) = 0 THEN onsets
    ELSE SpacingLoop(onsets, MsToTicks(minimumSpacingMs), 2, <<onsets[1]>>)


\* ------------------------------------------------------------------ sorting

RECURSIVE InsertAsc(_, _)
InsertAsc(x, sorted) ==
    IF sorted = << >> THEN <<x>>
    ELSE IF x <= Head(sorted) THEN <<x>> \o sorted
         ELSE <<Head(sorted)>> \o InsertAsc(x, Tail(sorted))

RECURSIVE SortAsc(_)
\* sort.Float64s, and sort.Slice by time: the ascending arrangement of the values
SortAsc(s) == IF s = << >> THEN << >> ELSE InsertAsc(Head(s), SortAsc(Tail(s)))

\* the permutations of 1..n
IndexPermutations(n) == {p \in [1..n -> 1..n] : \A i, j \in 1..n : i # j => p[i] # p[j]}

\* sort.Slice with the less function energy[i] > energy[j]: sort.Slice is not
\* stable, so every arrangement in which no onset stands before one of strictly
\* higher energy is a possible outcome
SortByEnergyDescending(onsets, energy) ==
    {[i \in 1..Len(onsets) |-> [time |-> onsets[p[i]], energy |-> energy[p[i]]]] :
        p \in {q \in IndexPermutations(Len(onsets)) :
                 \A i, j \in 1..Len(onsets) :
                     i < j => ~FracLess(energy[q[i]], energy[q[j]])}}

\* the selection left in the order of the ranking, without the sort by time
SelectByEnergy_RankOrder(samples, sampleRate, onsets, numToSelect) ==
    LET energy == [i \in 1..Len(onsets) |->
                      calculateOnsetEnergy(samples, sampleRate, onsets[i])]
    IN  {[i \in 1..numToSelect |-> ranked[i].time] :
            ranked \in SortByEnergyDescending(onsets, energy)}

\* the ranking read from its low end: the numToSelect onsets of least energy
SelectByEnergy_LowestFirst(samples, sampleRate, onsets, numToSelect) ==
    LET energy == [i \in 1..Len(onsets) |->
                      calculateOnsetEnergy(samples, sampleRate, onsets[i])]
    IN  {SortAsc([i \in 1..numToSelect |-> ranked[Len(onsets) + 1 - i].time]) :
            ranked \in SortByEnergyDescending(onsets, energy)}

\* lines 347-380 of findBestOnsets, 449-477 of findConsensusOnsets: rank by
\* energy, keep the first numToSelect, sort those by time, keep the times
SelectByEnergy(samples, sampleRate, onsets, numToSelect) ==
    LET energy == [i \in 1..Len(onsets) |->
                      calculateOnsetEnergy(samples, sampleRate, onsets[i])]
    IN  {SortAsc([i \in 1..numToSelect |-> ranked[i].time]) :
            ranked \in SortByEnergyDescending(onsets, energy)}

\* ------------------------------------------------------- consensus clusters

\* calculatePercentile without the interpolation: the value at the rank
\* rounded down
calculatePercentile_NearestRank(sorted, percentile) ==
    IF Len(sorted) = 0 THEN 0
    ELSE IF Len(sorted) = 1 THEN 100 * sorted[1]
    ELSE 100 * At(sorted, (percentile * (Len(sorted) - 1)) \div 100)

\* calculatePercentile, times 100: rank = percentile / 100 * (len - 1), and the
\* linear interpolation between sorted[floor(rank)] and sorted[ceil(rank)]
calculatePercentile(sorted, percentile) ==
    IF Len(sorted) = 0 THEN 0
    ELSE IF Len(sorted) = 1 THEN 100 * sorted[1]
    ELSE LET rank100 == percentile * (Len(sorted) - 1)
             lowerIndex == rank100 \div 100
             weight100 == rank100 % 100
             upper == IF weight100 = 0 THEN lowerIndex ELSE lowerIndex + 1
             upperIndex == IF upper >= Len(sorted) THEN Len(sorted) - 1 ELSE upper
         IN  IF lowerIndex = upperIndex THEN 100 * At(sorted, lowerIndex)
             ELSE At(sorted, lowerIndex) * (100 - weight100)
                  + At(sorted, upperIndex) * weight100

\* removeOutliers keeping only the values strictly inside the fence
removeOutliers_StrictFence(data) ==
    IF Len(data) < 4 THEN data
    ELSE LET sorted == SortAsc(data)
             q1 == calculatePercentile(sorted, 25)
             q3 == calculatePercentile(sorted, 75)
             iqr == q3 - q1
             lowerBound == 2 * q1 - 3 * iqr
             upperBound == 2 * q3 + 3 * iqr
         IN  SelectSeq(data, LAMBDA value :
                 200 * value > lowerBound /\ 200 * value < upperBound)

\* removeOutliers: the values inside [q1 - 1.5 * iqr, q3 + 1.5 * iqr], in the
\* order of data (bounds and values compared times 200)
removeOutliers(data) ==
    IF Len(data) < 4 THEN data
    ELSE LET sorted == SortAsc(data)
             q1 == calculatePercentile(sorted, 25)
             q3 == calculatePercentile(sorted, 75)
             iqr == q3 - q1
             lowerBound == 2 * q1 - 3 * iqr
             upperBound == 2 * q3 + 3 * iqr
         IN  SelectSeq(data, LAMBDA value :
                 200 * value >= lowerBound /\ 200 * value <= upperBound)

\* sum / float64(len), for a non-empty list
Mean(s) == SumSeq(s) \div Len(s)

\* calculateClusterMidpoint dividing the sum of the cleaned cluster by the
\* length of the original one
calculateClusterMidpoint_DividesByAll(cluster) ==
    IF Len(cluster) = 0 THEN 0
    ELSE IF Len(cluster) < 4 THEN Mean(cluster)
    ELSE LET cleaned == removeOutliers(cluster)
         IN  IF Len(cleaned) = 0 THEN Mean(cluster)
             ELSE SumSeq(cleaned) \div Len(cluster)

calculateClusterMidpoint(cluster) ==
    IF Len(cluster) = 0 THEN 0
    ELSE IF Len(cluster) < 4 THEN Mean(cluster)
    ELSE LET cleaned == removeOutliers(cluster)
         IN  IF Len(cleaned) = 0 THEN Mean(cluster) ELSE Mean(cleaned)

RECURSIVE ClusterLoop_DropsLast(_, _, _, _)
\* the clustering loop without the handling of the last cluster after the loop
ClusterLoop_DropsLast(allOnsets, i, currentCluster, clusters) ==
    IF i > Len(allOnsets) THEN clusters
    ELSE IF allOnsets[i] - currentCluster[Len(currentCluster)] <= clusterThreshold
         THEN ClusterLoop_DropsLast(allOnsets, i + 1,
                                    Append(currentCluster, allOnsets[i]), clusters)
         ELSE ClusterLoop_DropsLast(allOnsets, i + 1, <<allOnsets[i]>>,
                                    Append(clusters, currentCluster))

RECURSIVE ClusterLoop(_, _, _, _)
\* lines 427-443 of findConsensusOnsets: the clusters of the sorted list, in
\* order, the last one included
ClusterLoop(allOnsets, i, currentCluster, clusters) ==
    IF i > Len(allOnsets) THEN Append(clusters, currentCluster)
    ELSE IF allOnsets[i] - currentCluster[Len(currentCluster)] <= clusterThreshold
         THEN ClusterLoop(allOnsets, i + 1, Append(currentCluster, allOnsets[i]), clusters)
         ELSE ClusterLoop(allOnsets, i + 1, <<allOnsets[i]>>,
                          Append(clusters, currentCluster))

\* the clusters of a non-empty sorted list
Clusters(allOnsets) == ClusterLoop(allOnsets, 2, <<allOnsets[1]>>, << >>)

\* lines 418-422
MinClusterSize(options) ==
    IF options.MinConsensusClusterSize <= 0 THEN defaultMinClusterSize
    ELSE options.MinConsensusClusterSize

\* the midpoints of the clusters of at least minClusterSize onsets
ConsensusMidpoints(allOnsets, minClusterSize) ==
    LET kept == SelectSeq(Clusters(allOnsets), LAMBDA c : Len(c) >= minClusterSize)
    IN  [i \in 1..Len(kept) |-> calculateClusterMidpoint(kept[i])]


\* ------------------------------------------------------------ the detector

\* the names NewOnset accepts: the nine ODF kinds
OnsetKinds ==
    {"energy", "hfc", "complex", "phase", "wphase", "specdiff", "kl", "mkl", "specflux"}

\* the peak picker's window of ODF values (three past, current, two future: no
\* decision before it is full) and its lookahead, in frames
peakWindow == 5
lookahead == 3

\* whether the n-th call of Do (n * hopSize samples processed so far) may report
\* an onset, the last one having been reported when last samples had been
\* processed (-1: none yet)
DoMayDetect(n, last, minioiSamples) ==
    /\ n >= peakWindow
    /\ (last < 0 \/ n * hopSize - last >= minioiSamples)

\* GetLast after a detection by the n-th call of Do, in samples
DoTimestamp(n) == n * hopSize - lookahead * hopSize

RECURSIVE DetectLoop(_, _, _, _, _, _)
\* the loop of detectOnsetsInternal from hop start pos on (the n-th call of Do):
\* every list of onset times a detector may answer
DetectLoop(length, sampleRate, pos, n, last, onsets) ==
    IF ~(pos + hopSize < length) THEN {onsets}
    ELSE DetectLoop(length, sampleRate, pos + hopSize, n + 1, last, onsets)
         \cup (IF DoMayDetect(n, last, MsToSamples(minioi, sampleRate))
               THEN DetectLoop(length, sampleRate, pos + hopSize, n + 1, n * hopSize,
                               Append(onsets, TimeOfSample(DoTimestamp(n), sampleRate)))
               ELSE {})

\* what detectOnsetsInternal may return for a buffer of this length
DetectorRuns(length, sampleRate) == DetectLoop(length, sampleRate, 0, 1, -1, << >>)

\* detectAllOnsets for a supported method: the answer of that method's detector
detectAllOnsets(detected, method) == detected[method]

\* ---------------------------------------------------- candidate generation

findAllOnsets(detected, method) == detectAllOnsets(detected, method)

\* findBestOnsets without the cut to targetSlices
findBestOnsets_NoCut(samples, sampleRate, targetSlices, method, detected) ==
    LET allOnsets == detectAllOnsets(detected, method)
    IN  IF Len(allOnsets) = 0 THEN {<< >>}
        ELSE SelectByEnergy(samples, sampleRate, allOnsets, Len(allOnsets))

\* every result findBestOnsets may return (the ranking is not stable)
findBestOnsets(samples, sampleRate, targetSlices, method, detected) ==
    LET allOnsets == detectAllOnsets(detected, method)
        numToSelect == IF targetSlices > Len(allOnsets) THEN Len(allOnsets)
                       ELSE targetSlices
    IN  IF Len(allOnsets) = 0 THEN {<< >>}
        ELSE SelectByEnergy(samples, sampleRate, allOnsets, numToSelect)

\* lines 400-405 of findConsensusOnsets: the onsets of all methods, appended
MergedOnsets(detected) ==
    Concat([i \in 1..Len(methods) |-> detectAllOnsets(detected, methods[i])])

\* findConsensusOnsets clustering the merged list as collected, not sorted
findConsensusOnsets_NoSort(samples, sampleRate, options, detected) ==
    LET allOnsets == MergedOnsets(detected)
        consensusOnsets == ConsensusMidpoints(allOnsets, MinClusterSize(options))
    IN  IF Len(allOnsets) = 0 THEN {<< >>}
        ELSE IF options.NumSlices > 0 /\ Len(consensusOnsets) > options.NumSlices
             THEN SelectByEnergy(samples, sampleRate, consensusOnsets, options.NumSlices)
             ELSE {consensusOnsets}

\* every result findConsensusOnsets may return
findConsensusOnsets(samples, sampleRate, options, detected) ==
    LET allOnsets == MergedOnsets(detected)
        consensusOnsets == ConsensusMidpoints(SortAsc(allOnsets), MinClusterSize(options))
    IN  IF Len(allOnsets) = 0 THEN {<< >>}
        ELSE IF options.NumSlices > 0 /\ Len(consensusOnsets) > options.NumSlices
             THEN SelectByEnergy(samples, sampleRate, consensusOnsets, options.NumSlices)
             ELSE {consensusOnsets}

\* ------------------------------------------------------------ AnalyzeSlices

\* the defaulting applied to every name that is not a known one
EffectiveMethod_UnknownIsHfc(optionsMethod) ==
    IF optionsMethod \in OnsetKinds \cup {"consensus"} THEN optionsMethod ELSE "hfc"

\* the defaulting to the first method of the list instead of "hfc"
EffectiveMethod_EmptyIsEnergy(optionsMethod) ==
    IF optionsMethod = "" THEN "energy" ELSE optionsMethod

\* lines 258-262: Method "" stands for "hfc"
EffectiveMethod(optionsMethod) == IF optionsMethod = "" THEN "hfc" ELSE optionsMethod

\* the methods whose detectors a run with this method constructs
MethodsRun(method) ==
    IF method = "consensus" THEN OnsetKinds
    ELSE IF method \in OnsetKinds THEN {method} ELSE {}

\* lines 264-275: every candidate list the run may produce
GenerateCandidates(samples, sampleRate, options, detected) ==
    LET method == EffectiveMethod(options.Method)
    IN  IF method = "consensus"
        THEN findConsensusOnsets(samples, sampleRate, options, detected)
        ELSE IF options.NumSlices > 0
             THEN findBestOnsets(samples, sampleRate, options.NumSlices, method, detected)
             ELSE {findAllOnsets(detected, method)}

\* lines 277-280
OptimizeStage(samples, sampleRate, options, onsets) ==
    IF options.Optimize /\ Len(onsets) > 0
    THEN optimizeOnsetPositions(samples, sampleRate, onsets, options.OptimizeWindowMs)
    ELSE onsets

\* lines 282-285
SpacingStage(options, onsets) ==
    IF options.UseMinimumSpacing /\ Len(onsets) > 0
    THEN applyMinimumSpacing(onsets, options.MinimumSpacing)
    ELSE onsets

\* every Onsets list AnalyzeSlices may return for a decoded buffer and the
\* answers of the detectors
AnalyzeOutcomes(samples, sampleRate, options, detected) ==
    {SpacingStage(options, OptimizeStage(samples, sampleRate, options, c)) :
        c \in GenerateCandidates(samples, sampleRate, options, detected)}

\* the defaults with the four later fields left at their zero values
DefaultSliceAnalyzerOptions_ZeroFields ==
    [NumSlices |-> 0,
     Optimize |-> TRUE,
     OptimizeWindowMs |-> 100,
     Method |-> "",
     MinConsensusClusterSize |-> 0,
     UseMinimumSpacing |-> FALSE,
     MinimumSpacing |-> 0]

DefaultSliceAnalyzerOptions ==
    [NumSlices |-> 0,
     Optimize |-> TRUE,
     OptimizeWindowMs |-> 100,
     Method |-> "hfc",
     MinConsensusClusterSize |-> 3,
     UseMinimumSpacing |-> TRUE,
     MinimumSpacing |-> 80]

\* the decoded left channel of a file
LeftChannel(f) ==
    [i \in 1..(Len(f.data) \div f.numChannels) |-> f.data[(i - 1) * f.numChannels + 1]]

\* readWavFileLeftChannel dropping the error of FullPCMBuffer
readWavFileLeftChannel_IgnoresPcmError(f) ==
    IF f.status = "open_failed"
    THEN [samples |-> << >>, sampleRate |-> 0, err |-> "failed to open file"]
    ELSE IF f.status = "invalid_wav"
    THEN [samples |-> << >>, sampleRate |-> 0, err |-> "invalid WAV file"]
    ELSE [samples |-> LeftChannel(f), sampleRate |-> f.sampleRate, err |-> "nil"]

\* readWavFileLeftChannel treating a file without samples as invalid
readWavFileLeftChannel_EmptyIsError(f) ==
    IF f.status = "open_failed"
    THEN [samples |-> << >>, sampleRate |-> 0, err |-> "failed to open file"]
    ELSE IF f.status = "invalid_wav" \/ Len(f.data) = 0
    THEN [samples |-> << >>, sampleRate |-> 0, err |-> "invalid WAV file"]
    ELSE IF f.status = "pcm_failed"
    THEN [samples |-> << >>, sampleRate |-> 0, err |-> "failed to read PCM data"]
    ELSE [samples |-> LeftChannel(f), sampleRate |-> f.sampleRate, err |-> "nil"]

\* readWavFileLeftChannel: the left channel of the interleaved PCM data, or the
\* error of the step that failed
readWavFileLeftChannel(f) ==
    IF f.status = "open_failed"
    THEN [samples |-> << >>, sampleRate |-> 0, err |-> "failed to open file"]
    ELSE IF f.status = "invalid_wav"
    THEN [samples |-> << >>, sampleRate |-> 0, err |-> "invalid WAV file"]
    ELSE IF f.status = "pcm_failed"
    THEN [samples |-> << >>, sampleRate |-> 0, err |-> "failed to read PCM data"]
    ELSE [samples |-> LeftChannel(f), sampleRate |-> f.sampleRate, err |-> "nil"]


\* ------------------------------------------------------------------ inputs

\* the most raw onsets the nine detectors of a consensus run report together
MaxRawOnsets == 4

\* the rate of the files analyzed
SampleRates == {200}

\* the length of the longer buffers: nine hops, of which the loop feeds eight
LongLength == 9 * hopSize

\* silence, then a step to a constant level at the sixth hop
StepSignal == [i \in 1..LongLength |-> IF i - 1 >= 5 * hopSize THEN 1 ELSE 0]

\* two bursts, the first (third hop) louder than the second (sixth hop)
BurstSignal ==
    [i \in 1..LongLength |->
        IF (i - 1) \div hopSize = 2 THEN 2
        ELSE IF (i - 1) \div hopSize = 5 THEN 1 ELSE 0]

\* a constant level: every window has the same energy and no variance
FlatSignal == [i \in 1..LongLength |-> 1]

\* interleaved stereo data with the given left channel
Stereo(left) == [i \in 1..(2 * Len(left)) |-> IF i % 2 = 1 THEN left[(i + 1) \div 2] ELSE 3]

WavFile(status, numChannels, sampleRate, data) ==
    [status |-> status, numChannels |-> numChannels, sampleRate |-> sampleRate, data |-> data]

Files ==
    {WavFile(st, 1, 0, << >>) : st \in {"open_failed", "invalid_wav", "pcm_failed"}}
    \cup {WavFile("ok", 1, sr, d) :
            sr \in SampleRates,
            d \in {<< >>, [i \in 1..hopSize |-> 1], StepSignal, FlatSignal}}
    \cup {WavFile("ok", 2, sr, Stereo(BurstSignal)) : sr \in SampleRates}

OptionsSpace ==
    [NumSlices : {0, 1, 2},
     Optimize : BOOLEAN,
     OptimizeWindowMs : {100},
     Method : {"", "hfc", "consensus", "flux"},
     MinConsensusClusterSize : {0, 2},
     UseMinimumSpacing : BOOLEAN,
     MinimumSpacing : {-20, 30}]
    \cup {DefaultSliceAnalyzerOptions}

\* the onset times some detector can report for the buffer
DetectorSlots(length, sampleRate) ==
    UNION {Range(r) : r \in DetectorRuns(length, sampleRate)}

\* The answers of the detectors to a buffer.  A run with a single method
\* consults that method's detector alone: it may answer anything the detector
\* loop allows.  A consensus run consults all nine; what matters to it is how
\* many methods report each time, so count[t] <= MaxRawOnsets methods report
\* time t: the first count[t] of the list.
DetectorAnswers(length, sampleRate, method) ==
    LET runs == DetectorRuns(length, sampleRate)
        slots == DetectorSlots(length, sampleRate)
        index == [i \in 1..Len(methods) |-> methods[i]]
        counts == {count \in [slots -> 0..MaxRawOnsets] :
                      SumSeq([i \in 1..Len(methods) |->
                                 Cardinality({t \in slots : count[t] >= i})])
                          <= MaxRawOnsets}
        answer(count) ==
            [m \in OnsetKinds |->
                SetToSortedSeq({t \in slots :
                    \E i \in 1..count[t] : i <= Len(methods) /\ index[i] = m})]
    IN  IF method = "consensus"
        THEN {d \in {answer(count) : count \in counts} :
                 \A m \in OnsetKinds : d[m] \in runs}
        ELSE IF method \in OnsetKinds
        THEN {[m \in OnsetKinds |-> IF m = method THEN r ELSE << >>] : r \in runs}
        ELSE {[m \in OnsetKinds |-> << >>]}

\* ------------------------------------------------------------------- state

VARIABLES
    file,        \* the WAV file named by wavFile
    options,     \* the options of the call
    det,         \* the answer of each method's detector to the file's buffer
    pc,          \* where the call of AnalyzeSlices stands
    samples,     \* samples, once read
    sampleRate,  \* sampleRate, once read
    method,      \* the local variable method
    onsets,      \* the local variable onsets
    candidates,  \* onsets as candidate generation left it
    refined,     \* onsets as they reached the spacing filter
    detectors,   \* the methods a detector was constructed for
    trace,       \* the stages that ran, in order
    result,      \* the *SliceAnalyzerResult returned
    err,         \* the error returned ("nil": none)
    o,           \* the detector of a call of detectOnsetsInternal
    hopPos,      \* pos, the loop variable of detectOnsetsInternal
    fed,         \* the starts of the hops given to Do so far
    reads,       \* the sample indices a function called on its own has read
    ret          \* the value such a function returned

\* the variables of the detection loop
detectVars == <<o, hopPos, fed>>

\* the variables of a function called on its own
callVars == <<reads, ret>>

vars ==
    <<file, options, det, pc, samples, sampleRate, method, onsets, candidates,
      refined, detectors, trace, result, err, o, hopPos, fed, reads, ret>>

\* no detector: the detection loop is not followed step by step
NoDetector == [totalFrames |-> 0, lastOnset |-> -1, minioi |-> 0]

\* no function was called on its own: nothing returned
NoValue == << >>

\* the nil *SliceAnalyzerResult
NilResult == [isNil |-> TRUE, Onsets |-> << >>, Samples |-> << >>, SampleRate |-> 0]

Init ==
    /\ file \in Files
    /\ options \in OptionsSpace
    /\ det \in DetectorAnswers(Len(readWavFileLeftChannel(file).samples),
                               readWavFileLeftChannel(file).sampleRate,
                               EffectiveMethod(options.Method))
    /\ pc = "read"
    /\ samples = << >>
    /\ sampleRate = 0
    /\ method = ""
    /\ onsets = << >>
    /\ candidates = << >>
    /\ refined = << >>
    /\ detectors = {}
    /\ trace = << >>
    /\ result = NilResult
    /\ err = "nil"
    /\ o = NoDetector
    /\ hopPos = 0
    /\ fed = << >>
    /\ reads = {}
    /\ ret = NoValue

\* lines 253-256: the file cannot be read; return nil, err
ReadFails ==
    /\ pc = "read"
    /\ readWavFileLeftChannel(file).err # "nil"
    /\ err' = readWavFileLeftChannel(file).err
    /\ result' = NilResult
    /\ pc' = "done"
    /\ UNCHANGED detectVars
    /\ UNCHANGED callVars
    /\ UNCHANGED <<file, options, det, samples, sampleRate, method, onsets,
                   candidates, refined, detectors, trace>>

\* lines 253-262: the file is read and the method defaulted
ReadFile ==
    /\ pc = "read"
    /\ readWavFileLeftChannel(file).err = "nil"
    /\ samples' = readWavFileLeftChannel(file).samples
    /\ sampleRate' = readWavFileLeftChannel(file).sampleRate
    /\ method' = EffectiveMethod(options.Method)
    /\ pc' = "generate"
    /\ UNCHANGED detectVars
    /\ UNCHANGED callVars
    /\ UNCHANGED <<file, options, det, onsets, candidates, refined, detectors,
                   trace, result, err>>

\* the candidate list c is generated
Generated(c) ==
    /\ onsets' = c
    /\ candidates' = c
    /\ detectors' = MethodsRun(method)
    /\ trace' = Append(trace, "generate")
    /\ pc' = "optimize"
    /\ UNCHANGED detectVars
    /\ UNCHANGED callVars
    /\ UNCHANGED <<file, options, det, samples, sampleRate, method, refined,
                   result, err>>

\* lines 266-268
FindConsensusOnsets ==
    /\ pc = "generate"
    /\ method = "consensus"
    /\ \E c \in findConsensusOnsets(samples, sampleRate, options, det) : Generated(c)

\* lines 269-271
FindBestOnsets ==
    /\ pc = "generate"
    /\ method \in OnsetKinds
    /\ options.NumSlices > 0
    /\ \E c \in findBestOnsets(samples, sampleRate, options.NumSlices, method, det) :
           Generated(c)

\* lines 272-275
FindAllOnsets ==
    /\ pc = "generate"
    /\ method \in OnsetKinds
    /\ ~(options.NumSlices > 0)
    /\ Generated(findAllOnsets(det, method))

\* line 750, reached from findBestOnsets or findAllOnsets: NewOnset does not
\* know the method; no detector is created and the call does not return a result
NewOnsetFails ==
    /\ pc = "generate"
    /\ method # "consensus"
    /\ method \notin OnsetKinds
    /\ err' = "unsupported onset method"
    /\ result' = NilResult
    /\ pc' = "failed"
    /\ UNCHANGED detectVars
    /\ UNCHANGED callVars
    /\ UNCHANGED <<file, options, det, samples, sampleRate, method, onsets,
                   candidates, refined, detectors, trace>>

\* lines 277-280
Optimize ==
    /\ pc = "optimize"
    /\ onsets' = OptimizeStage(samples, sampleRate, options, onsets)
    /\ refined' = onsets'
    /\ trace' = IF options.Optimize /\ Len(onsets) > 0
                THEN Append(trace, "optimize") ELSE trace
    /\ pc' = "spacing"
    /\ UNCHANGED detectVars
    /\ UNCHANGED callVars
    /\ UNCHANGED <<file, options, det, samples, sampleRate, method, candidates,
                   detectors, result, err>>

\* lines 282-285 followed by a second refinement, of the filtered list
MinimumSpacing_ThenRefine ==
    /\ pc = "spacing"
    /\ onsets' = OptimizeStage(samples, sampleRate, options, SpacingStage(options, onsets))
    /\ trace' = LET spaced == IF options.UseMinimumSpacing /\ Len(onsets) > 0
                              THEN Append(trace, "spacing") ELSE trace
                IN  IF options.Optimize /\ Len(onsets) > 0
                    THEN Append(spaced, "optimize") ELSE spaced
    /\ pc' = "return"
    /\ UNCHANGED detectVars
    /\ UNCHANGED callVars
    /\ UNCHANGED <<file, options, det, samples, sampleRate, method, candidates,
                   refined, detectors, result, err>>

\* lines 282-285
MinimumSpacing ==
    /\ pc = "spacing"
    /\ onsets' = SpacingStage(options, onsets)
    /\ trace' = IF options.UseMinimumSpacing /\ Len(onsets) > 0
                THEN Append(trace, "spacing") ELSE trace
    /\ pc' = "return"
    /\ UNCHANGED detectVars
    /\ UNCHANGED callVars
    /\ UNCHANGED <<file, options, det, samples, sampleRate, method, candidates,
                   refined, detectors, result, err>>

\* lines 287-291
Return ==
    /\ pc = "return"
    /\ result' = [isNil |-> FALSE, Onsets |-> onsets, Samples |-> samples,
                  SampleRate |-> sampleRate]
    /\ err' = "nil"
    /\ pc' = "done"
    /\ UNCHANGED detectVars
    /\ UNCHANGED callVars
    /\ UNCHANGED <<file, options, det, samples, sampleRate, method, onsets,
                   candidates, refined, detectors, trace>>

Next ==
    \/ ReadFails
    \/ ReadFile
    \/ FindConsensusOnsets
    \/ FindBestOnsets
    \/ FindAllOnsets
    \/ NewOnsetFails
    \/ Optimize
    \/ MinimumSpacing
    \/ Return

Spec == Init /\ [][Next]_vars


\* ------------------------------------------------------ the detection loop

\* detectOnsetsInternal followed call by call: the loop of lines 759-778 around
\* a detector whose answers are those the peak picker's gating allows.  The
\* analyzer's variables other than samples, sampleRate, method and onsets
\* stand still.

\* the lengths of the buffers given to detectOnsetsInternal
DetectLengths == 0..LongLength

\* their sample rates: the minimum inter-onset interval is half a hop, two and
\* a half hops and five hops long
DetectRates == {200, 1000, 2000}

InitDetect ==
    /\ samples \in {[i \in 1..length |-> 0] : length \in DetectLengths}
    /\ sampleRate \in DetectRates
    /\ method = "hfc"
    /\ pc = "construct"
    /\ onsets = << >>
    /\ o = NoDetector
    /\ hopPos = 0
    /\ fed = << >>
    /\ file = WavFile("ok", 1, 0, << >>)
    /\ options = DefaultSliceAnalyzerOptions
    /\ det = [m \in OnsetKinds |-> << >>]
    /\ candidates = << >>
    /\ refined = << >>
    /\ detectors = {}
    /\ trace = << >>
    /\ result = NilResult
    /\ err = "nil"
    /\ reads = {}
    /\ ret = NoValue

\* the variables the detection loop leaves alone
analyzerVars ==
    <<file, options, det, samples, sampleRate, method, candidates, refined,
      detectors, trace, result, err, reads, ret>>

\* lines 762-768: the indices i of input.Data set to 0 instead of a sample when
\* the hop starting at pos is copied
ZeroPadded(buffer, pos) == {i \in 0..(hopSize - 1) : ~(pos + i < Len(buffer))}

\* lines 750-757: the detector is constructed and its minimum inter-onset
\* interval set, in samples
NewOnset ==
    /\ pc = "construct"
    /\ o' = [totalFrames |-> 0, lastOnset |-> -1,
             minioi |-> MsToSamples(minioi, sampleRate)]
    /\ pc' = "loop"
    /\ UNCHANGED <<hopPos, fed, onsets>>
    /\ UNCHANGED analyzerVars

\* GetLastS: the time of the last onset, which trails the samples processed at
\* its detection by the lookahead
GetLastS(onsetState) ==
    TimeOfSample(onsetState.lastOnset - lookahead * hopSize, sampleRate)

\* lines 760-772 and 774 (output.Data[0] = 0): a hop is fed and no onset fires,
\* with a repeated append of GetLastS although no onset fired
DoSilent_AppendsLast ==
    /\ pc = "loop"
    /\ hopPos + hopSize < Len(samples)
    /\ o' = [o EXCEPT !.totalFrames = @ + hopSize]
    /\ fed' = Append(fed, hopPos)
    /\ hopPos' = hopPos + hopSize
    /\ onsets' = IF o.lastOnset >= 0 THEN Append(onsets, GetLastS(o)) ELSE onsets
    /\ UNCHANGED pc
    /\ UNCHANGED analyzerVars

\* the loop running while pos is inside the buffer (pos < len(samples)), the
\* hop that reaches past the end being filled up with zeros
DoSilent_WhileInside ==
    /\ pc = "loop"
    /\ hopPos < Len(samples)
    /\ o' = [o EXCEPT !.totalFrames = @ + hopSize]
    /\ fed' = Append(fed, hopPos)
    /\ hopPos' = hopPos + hopSize
    /\ UNCHANGED <<pc, onsets>>
    /\ UNCHANGED analyzerVars

\* lines 760-772 and 774 (output.Data[0] = 0): a hop is fed and no onset fires
DoSilent ==
    /\ pc = "loop"
    /\ hopPos + hopSize < Len(samples)
    /\ o' = [o EXCEPT !.totalFrames = @ + hopSize]
    /\ fed' = Append(fed, hopPos)
    /\ hopPos' = hopPos + hopSize
    /\ UNCHANGED <<pc, onsets>>
    /\ UNCHANGED analyzerVars

\* lines 760-777 (output.Data[0] > 0): a hop is fed, the picker's gating lets
\* an onset fire, and its time is appended
DoOnset ==
    /\ pc = "loop"
    /\ hopPos + hopSize < Len(samples)
    /\ DoMayDetect((o.totalFrames + hopSize) \div hopSize, o.lastOnset, o.minioi)
    /\ o' = [o EXCEPT !.totalFrames = @ + hopSize, !.lastOnset = o.totalFrames + hopSize]
    /\ fed' = Append(fed, hopPos)
    /\ hopPos' = hopPos + hopSize
    /\ onsets' = Append(onsets, GetLastS(o'))
    /\ UNCHANGED pc
    /\ UNCHANGED analyzerVars

\* lines 760 and 780: the loop ends and the onsets are returned
LoopExit ==
    /\ pc = "loop"
    /\ ~(hopPos + hopSize < Len(samples))
    /\ pc' = "returned"
    /\ UNCHANGED <<o, hopPos, fed, onsets>>
    /\ UNCHANGED analyzerVars

NextDetect ==
    \/ NewOnset
    \/ DoSilent
    \/ DoOnset
    \/ LoopExit

SpecDetect == InitDetect /\ [][NextDetect]_vars

\* ------------------------------------------------ functions called alone

\* The functions of the analyzer applied on their own, to arguments the
\* pipeline need not produce (unsorted lists, times outside the buffer, empty
\* buffers): the argument is drawn at the start, one action is the call.

\* the longest list given to applyMinimumSpacing
MaxOnsets == 4

\* the times, in milliseconds, the lists given to applyMinimumSpacing hold
SpacingTimesMs == {0, 20, 40, 100}

RECURSIVE ListsUpTo(_, _)
\* the lists of at most n elements of S
ListsUpTo(S, n) ==
    IF n = 0 THEN {<< >>}
    ELSE LET shorter == ListsUpTo(S, n - 1)
         IN  shorter \cup {Append(l, x) : l \in {k \in shorter : Len(k) = n - 1}, x \in S}

\* no detector reports an onset
NoAnswers == [m \in OnsetKinds |-> << >>]

\* the elements of the list at the indices of K, in the order of the list
Subsequence(list, K) ==
    LET index == SetToSortedSeq(K)
    IN  [j \in 1..Len(index) |-> list[index[j]]]

\* the variables a call leaves alone, whichever function is called
callFrame == <<file, det, method, detectors, trace, result, err, o, hopPos, fed>>

\* a call of applyMinimumSpacing(onsets, options.MinimumSpacing) is about to be made
InitApplyMinimumSpacing ==
    /\ pc = "applyMinimumSpacing"
    /\ onsets \in ListsUpTo({MsToTicks(t) : t \in SpacingTimesMs}, MaxOnsets)
    /\ options \in {[DefaultSliceAnalyzerOptions EXCEPT !.MinimumSpacing = s] :
                       s \in {-20, 0, 10, 20, 30, 50, 80, 200}}
    /\ samples = << >>
    /\ sampleRate = 200
    /\ det = NoAnswers

\* a sawtooth of eleven samples
RampSignal == [i \in 1..(2 * hopSize + 3) |-> i % 3]

\* twenty samples (one window of 100 ms) in which the greatest difference of
\* variances, 1/4, is reached at the splits 8 and 10
TieSignal == <<0, 1, 2, 0, 0, 1, 1, 1, 0, 0, 2, 1, 2, 1, 1, 0, 0, 2, 0, 0>>

\* the buffers given to optimizeOnsetPositions and calculateOnsetEnergy: none,
\* one hop, the sawtooth, the tie and the nine-hop signals
CallBuffers ==
    {<< >>, [i \in 1..hopSize |-> 1], RampSignal, TieSignal, StepSignal, BurstSignal,
     FlatSignal}

\* the onset times given to them: before the buffer, at its start, inside it
\* (one of them between two samples), at the end of the long buffers and past it
CallTimes ==
    {TimeOfSample(k, 200) : k \in {-2, 0, 5, 10, 20, 26, LongLength, LongLength + 4}}
    \cup {TimeOfSample(5, 200) + 1000}

\* the longest list given to optimizeOnsetPositions
MaxRefined == 2

\* a call of optimizeOnsetPositions(samples, sampleRate, onsets,
\* options.OptimizeWindowMs), or of calculateOnsetEnergy for each onset of the
\* list, is about to be made
InitOptimizeOnsetPositions ==
    /\ pc \in {"optimizeOnsetPositions", "calculateOnsetEnergy"}
    /\ onsets \in ListsUpTo(CallTimes, MaxRefined)
    /\ options \in {[DefaultSliceAnalyzerOptions EXCEPT !.OptimizeWindowMs = w] :
                       w \in {0, 50, 60, 100}}
    /\ samples \in CallBuffers
    /\ sampleRate = 200
    /\ det = NoAnswers

\* the largest cluster given to calculateClusterMidpoint
MaxCluster == 6

\* the times, in milliseconds, the clusters hold
ClusterTimesMs == {0, 5, 10, 50}

\* a call of calculateClusterMidpoint(cluster) is about to be made; the list
\* onsets is the cluster
InitCalculateClusterMidpoint ==
    /\ pc = "calculateClusterMidpoint"
    /\ onsets \in ListsUpTo({MsToTicks(t) : t \in ClusterTimesMs}, MaxCluster)
    /\ options = DefaultSliceAnalyzerOptions
    /\ samples = << >>
    /\ sampleRate = 200
    /\ det = NoAnswers

\* the buffer given to findConsensusOnsets: seventeen hops, the level
\* changing from hop to hop
ConsensusSignal == [i \in 1..(17 * hopSize) |-> ((i - 1) \div hopSize) % 3]

\* onset times a detector can report for it: detections by the 5th, 6th, 9th,
\* 12th and 15th call of Do (the first two within 50 ms of each other, the
\* others further apart)
ConsensusTimes == <<TimeOfSample(DoTimestamp(5), 200), TimeOfSample(DoTimestamp(6), 200),
                    TimeOfSample(DoTimestamp(9), 200), TimeOfSample(DoTimestamp(12), 200),
                    TimeOfSample(DoTimestamp(15), 200)>>

\* the sub-lists of a list, in its order
SubLists(list) == {Subsequence(list, K) : K \in SUBSET (1..Len(list))}

\* a call of findConsensusOnsets(samples, sampleRate, options, bufSize, hopSize)
\* is about to be made; the first two or three methods will report the same
\* onsets, the next one onsets of its own, the others none
InitFindConsensusOnsets ==
    /\ pc = "findConsensusOnsets"
    /\ samples = ConsensusSignal
    /\ sampleRate = 200
    /\ options \in {[DefaultSliceAnalyzerOptions EXCEPT !.Method = "consensus",
                                                        !.NumSlices = n,
                                                        !.MinConsensusClusterSize = c] :
                       n \in {0, 1, 2, 3}, c \in {0, 2}}
    /\ det \in {[m \in OnsetKinds |->
                    IF \E i \in 1..agreeing : methods[i] = m THEN shared
                    ELSE IF methods[agreeing + 1] = m THEN own ELSE << >>] :
                 agreeing \in {2, 3},
                 shared \in SubLists(ConsensusTimes),
                 own \in SubLists(ConsensusTimes)}
    /\ onsets = << >>

\* candidates keeps the list the function is called on
InitCalls ==
    /\ \/ InitApplyMinimumSpacing
       \/ InitOptimizeOnsetPositions
       \/ InitCalculateClusterMidpoint
       \/ InitFindConsensusOnsets
    /\ candidates = onsets
    /\ refined = << >>
    /\ reads = {}
    /\ ret = NoValue
    /\ file = WavFile("ok", 1, 0, << >>)
    /\ method = "hfc"
    /\ detectors = {}
    /\ trace = << >>
    /\ result = NilResult
    /\ err = "nil"
    /\ o = NoDetector
    /\ hopPos = 0
    /\ fed = << >>

\* lines 638-662: applyMinimumSpacing is called on the list; ret is what it
\* returned
ApplyMinimumSpacing ==
    /\ pc = "applyMinimumSpacing"
    /\ onsets' = applyMinimumSpacing(onsets, options.MinimumSpacing)
    /\ ret' = onsets'
    /\ pc' = "applied"
    /\ UNCHANGED <<options, samples, sampleRate, candidates, refined, reads>>
    /\ UNCHANGED callFrame

\* lines 638-662: applyMinimumSpacing is called again, on the list it returned
ApplyMinimumSpacingAgain ==
    /\ pc = "applied"
    /\ onsets' = applyMinimumSpacing(onsets, options.MinimumSpacing)
    /\ pc' = "applied_again"
    /\ UNCHANGED <<options, samples, sampleRate, candidates, refined, reads, ret>>
    /\ UNCHANGED callFrame

\* lines 626-634: optimizeOnsetPositions is called on the list
OptimizeOnsetPositions ==
    /\ pc = "optimizeOnsetPositions"
    /\ onsets' = optimizeOnsetPositions(samples, sampleRate, onsets, options.OptimizeWindowMs)
    /\ ret' = onsets'
    /\ reads' = UNION {RefineReads(samples, sampleRate, onsets[i], options.OptimizeWindowMs) :
                          i \in 1..Len(onsets)}
    /\ pc' = "optimized"
    /\ UNCHANGED <<options, samples, sampleRate, candidates, refined>>
    /\ UNCHANGED callFrame

\* lines 590-622, called as in lines 349-356: calculateOnsetEnergy is called
\* for each onset of the list; ret is the list of the energies
CalculateOnsetEnergy ==
    /\ pc = "calculateOnsetEnergy"
    /\ ret' = [i \in 1..Len(onsets) |-> calculateOnsetEnergy(samples, sampleRate, onsets[i])]
    /\ reads' = UNION {EnergyReads(samples, sampleRate, onsets[i]) : i \in 1..Len(onsets)}
    /\ pc' = "energy"
    /\ UNCHANGED <<options, samples, sampleRate, onsets, candidates, refined>>
    /\ UNCHANGED callFrame

\* lines 485-513: calculateClusterMidpoint is called on the cluster; refined
\* is cleanedCluster as removeOutliers returned it (line 500), when that line
\* is reached
CalculateClusterMidpoint ==
    /\ pc = "calculateClusterMidpoint"
    /\ ret' = calculateClusterMidpoint(onsets)
    /\ refined' = IF Len(onsets) >= 4 THEN removeOutliers(onsets) ELSE refined
    /\ pc' = "midpoint"
    /\ UNCHANGED <<options, samples, sampleRate, onsets, candidates, reads>>
    /\ UNCHANGED callFrame

\* lines 393-481: findConsensusOnsets is called; ret is the list it returned
FindConsensusOnsetsCall ==
    /\ pc = "findConsensusOnsets"
    /\ \E c \in findConsensusOnsets(samples, sampleRate, options, det) :
           /\ ret' = c
           /\ onsets' = c
    /\ pc' = "consensus"
    /\ UNCHANGED <<options, samples, sampleRate, candidates, refined, reads>>
    /\ UNCHANGED callFrame

NextCalls ==
    \/ FindConsensusOnsetsCall
    \/ CalculateClusterMidpoint
    \/ ApplyMinimumSpacing
    \/ ApplyMinimumSpacingAgain
    \/ OptimizeOnsetPositions
    \/ CalculateOnsetEnergy

SpecCalls == InitCalls /\ [][NextCalls]_vars

\* ------------------------------------------------------------------ claims

\* the call returned a result (no error)
Returned == pc = "done" /\ ~result.isNil

\* the spacings, in milliseconds, the filter is compared at
SpacingProbes == {-20, 0, 10, 20, 30, 50, 80, 200}

\* C1: for every option combination and every input buffer the Onsets list
\* AnalyzeSlices returns is strictly increasing, also after refinement.
C1_OnsetsStrictlyIncreasing ==
    Returned => StrictlyIncreasing(result.Onsets)

\* C2: with UseMinimumSpacing and MinimumSpacing = s ms, any two consecutive
\* returned onsets are at least s/1000 seconds apart, whatever list reached the
\* filter (sorted or not).
C2_ReturnedOnsetsAreSpaced ==
    (Returned /\ options.UseMinimumSpacing) =>
        \A i \in 1..(Len(result.Onsets) - 1) :
            result.Onsets[i + 1] - result.Onsets[i] >= MsToTicks(options.MinimumSpacing)

\* C2 witness: the filter received a list that is not sorted, dropped onsets
\* from it and kept at least two
C2_Witness ==
    /\ Returned
    /\ options.UseMinimumSpacing
    /\ options.MinimumSpacing > 0
    /\ ~StrictlyIncreasing(refined)
    /\ Len(result.Onsets) >= 2
    /\ Len(result.Onsets) < Len(refined)

\* C3: with NumSlices = k > 0 at most k onsets are returned, for every method,
\* consensus included, and every setting of Optimize and UseMinimumSpacing.
C3_AtMostNumSlices ==
    (Returned /\ options.NumSlices > 0) => Len(result.Onsets) <= options.NumSlices

\* C3 witness: a consensus run in which more clusters qualified than NumSlices
\* and exactly NumSlices onsets came back
C3_Witness ==
    /\ Returned
    /\ method = "consensus"
    /\ options.NumSlices > 0
    /\ Len(MergedOnsets(det)) > 0
    /\ Len(ConsensusMidpoints(SortAsc(MergedOnsets(det)), MinClusterSize(options)))
           > options.NumSlices
    /\ Len(result.Onsets) = options.NumSlices

\* C4: everything else fixed, a larger MinimumSpacing never returns more
\* onsets: the list that reached the filter, sorted or not, is cut to at most
\* as many onsets by s2 as by s1 whenever s1 <= s2.
C4_SpacingIsMonotone ==
    (pc \in {"return", "done"} /\ file.status = "ok") =>
        /\ onsets = SpacingStage(options, refined)
        /\ \A s1, s2 \in SpacingProbes \cup {options.MinimumSpacing} :
               s1 <= s2 =>
                   Len(SpacingStage([options EXCEPT !.MinimumSpacing = s2], refined))
                       <= Len(SpacingStage([options EXCEPT !.MinimumSpacing = s1], refined))

\* C4 witness: a returned run whose filter input is not sorted and for which
\* two spacings give different counts
C4_Witness ==
    /\ Returned
    /\ options.UseMinimumSpacing
    /\ ~StrictlyIncreasing(refined)
    /\ Len(applyMinimumSpacing(refined, 80)) < Len(applyMinimumSpacing(refined, 10))
    /\ Len(applyMinimumSpacing(refined, 10)) < Len(applyMinimumSpacing(refined, -20))

\* C5: when the file cannot be opened or decoded AnalyzeSlices returns an error
\* and a nil result; no detector is constructed and no stage runs.
C5_ReadFailureReturnsError ==
    file.status # "ok" =>
        /\ pc \in {"read", "done"}
        /\ result.isNil
        /\ detectors = {}
        /\ trace = << >>
        /\ onsets = << >>
        /\ (pc = "done" => err # "nil")

\* C5 witness: the call returned for a file whose PCM data cannot be decoded
C5_Witness == pc = "done" /\ file.status = "pcm_failed" /\ err # "nil"

\* C6: a file that decodes to zero samples gives no error and a result with
\* empty Onsets and empty Samples, for every supported method and option setting.
C6_EmptyInputIsNotAnError ==
    (pc = "done" /\ file.status = "ok" /\ Len(file.data) = 0) =>
        /\ err = "nil"
        /\ ~result.isNil
        /\ result.Onsets = << >>
        /\ result.Samples = << >>

\* C6 witness: a consensus run on an empty buffer returned, NumSlices > 0
C6_Witness ==
    /\ Returned
    /\ Len(file.data) = 0
    /\ method = "consensus"
    /\ options.NumSlices > 0
    /\ detectors = OnsetKinds

C8_NegativeSpacingRejected ==
    (pc = "done" /\ file.status = "ok" /\ options.UseMinimumSpacing
        /\ options.MinimumSpacing < 0) =>
        /\ err # "nil"
        /\ \A i \in 1..Len(trace) : trace[i] # "spacing"

\* C9: DefaultSliceAnalyzerOptions is NumSlices 0, Optimize true,
\* OptimizeWindowMs 100, Method "hfc", MinConsensusClusterSize 3,
\* UseMinimumSpacing true, MinimumSpacing 80.
C9_DefaultOptions ==
    options = DefaultSliceAnalyzerOptions =>
        /\ options.NumSlices = 0
        /\ options.Optimize = TRUE
        /\ options.OptimizeWindowMs = 100
        /\ options.Method = "hfc"
        /\ options.MinConsensusClusterSize = 3
        /\ options.UseMinimumSpacing = TRUE
        /\ options.MinimumSpacing = 80

\* C9 witness: a call with the default options returned onsets that went
\* through refinement and the 80 ms filter
C9_Witness ==
    /\ Returned
    /\ options = DefaultSliceAnalyzerOptions
    /\ trace = <<"generate", "optimize", "spacing">>
    /\ Len(result.Onsets) >= 1

\* C10: Method "" gives exactly the result of Method "hfc", for every input
\* and every setting of the other options: the same detector is constructed
\* and the same lists can be returned.
C10_EmptyMethodIsHfc ==
    (Returned /\ options.Method \in {"", "hfc"}) =>
        LET hfcOutcomes ==
                AnalyzeOutcomes(samples, sampleRate, [options EXCEPT !.Method = "hfc"], det)
        IN  /\ detectors = {"hfc"}
            /\ result.Onsets \in hfcOutcomes
            /\ AnalyzeOutcomes(samples, sampleRate, [options EXCEPT !.Method = ""], det)
                   = hfcOutcomes

\* C10 witness: a run with Method "" returned two or more onsets
C10_Witness ==
    /\ Returned
    /\ options.Method = ""
    /\ Len(result.Onsets) >= 2

\* C11: the pipeline order is fixed: candidate generation, then refinement
\* (when Optimize), then the spacing filter (when UseMinimumSpacing); the
\* filter receives the refined positions and nothing is refined after it.
C11_PipelineOrderFixed ==
    LET position(stage) == CASE stage = "generate" -> 1
                             [] stage = "optimize" -> 2
                             [] stage = "spacing" -> 3
    IN  /\ \A i, j \in 1..Len(trace) : i < j => position(trace[i]) < position(trace[j])
        /\ (Len(trace) > 0 => trace[1] = "generate")
        /\ (pc = "done" /\ file.status = "ok") =>
               /\ refined = OptimizeStage(samples, sampleRate, options, candidates)
               /\ onsets = SpacingStage(options, refined)
               /\ ("optimize" \in Range(trace)) = (options.Optimize /\ Len(candidates) > 0)
               /\ ("spacing" \in Range(trace))
                      = (options.UseMinimumSpacing /\ Len(refined) > 0)

\* C11 witness: all three stages ran, refinement moved a candidate, the filter
\* dropped a refined onset, and filtering before refining would have returned
\* another list
C11_Witness ==
    /\ Returned
    /\ trace = <<"generate", "optimize", "spacing">>
    /\ refined # candidates
    /\ result.Onsets # refined
    /\ OptimizeStage(samples, sampleRate, options, SpacingStage(options, candidates))
           # result.Onsets

\* the candidates a run with NumSlices > 0 selects from: the onsets of the
\* method's detector, or the cluster centers of a consensus run
SelectionPool ==
    IF method = "consensus"
    THEN IF Len(MergedOnsets(det)) = 0 THEN << >>
         ELSE ConsensusMidpoints(SortAsc(MergedOnsets(det)), MinClusterSize(options))
    ELSE detectAllOnsets(det, method)

\* C12: with NumSlices = k > 0 the selected onsets are min(k, n) of the n
\* candidates, none has less energy (50 ms window starting at the onset) than a
\* rejected candidate, every one is a candidate, and they are in ascending
\* time order; for a single method and for the cluster centers of consensus.
C12_TopKByEnergy ==
    (pc = "optimize" /\ file.status = "ok" /\ options.NumSlices > 0) =>
        /\ Len(candidates) = IF options.NumSlices < Len(SelectionPool)
                             THEN options.NumSlices ELSE Len(SelectionPool)
        /\ Range(candidates) \subseteq Range(SelectionPool)
        /\ StrictlyIncreasing(candidates)
        /\ \A s \in Range(candidates) :
               \A r \in Range(SelectionPool) \ Range(candidates) :
                   ~FracLess(calculateOnsetEnergy(samples, sampleRate, s),
                             calculateOnsetEnergy(samples, sampleRate, r))

\* C12 witness: a consensus run with more cluster centers than NumSlices, in
\* which a center of strictly less energy than the selected ones was rejected
C12_Witness ==
    /\ Returned
    /\ method = "consensus"
    /\ options.NumSlices > 0
    /\ Len(SelectionPool) > options.NumSlices
    /\ \E s \in Range(candidates) :
           \E r \in Range(SelectionPool) \ Range(candidates) :
               FracLess(calculateOnsetEnergy(samples, sampleRate, r),
                        calculateOnsetEnergy(samples, sampleRate, s))

\* the merged timestamps of the nine methods, sorted
SortedRawOnsets == SortAsc(MergedOnsets(det))

\* the places where the greedy split closes a cluster: index i such that the
\* next timestamp is more than 50 ms after timestamp i (and the end of the list)
ClusterEnds ==
    {i \in 1..Len(SortedRawOnsets) :
        i = Len(SortedRawOnsets)
        \/ SortedRawOnsets[i + 1] - SortedRawOnsets[i] > clusterThreshold}

\* the first index of the cluster that ends at index e
ClusterStart(e) ==
    IF \E d \in ClusterEnds : d < e
    THEN 1 + CHOOSE d \in ClusterEnds : d < e /\ \A c \in ClusterEnds : c < e => c <= d
    ELSE 1

\* the ends of the clusters holding at least MinConsensusClusterSize onsets
LargeClusterEnds ==
    {e \in ClusterEnds : e - ClusterStart(e) + 1 >= MinClusterSize(options)}

\* C13: consensus sorts the merged timestamps and splits them greedily, a
\* timestamp joining the current cluster iff it is within 50 ms of the
\* cluster's last element; exactly one timestamp is emitted for each cluster of
\* at least MinConsensusClusterSize onsets, the last cluster included, and
\* none for a smaller one.
C13_GreedyClusters ==
    (pc = "optimize" /\ method = "consensus" /\ file.status = "ok"
        /\ options.NumSlices = 0) =>
        /\ Len(candidates) = Cardinality(LargeClusterEnds)
        /\ \A e \in LargeClusterEnds :
               Cardinality({i \in 1..Len(candidates) :
                               /\ SortedRawOnsets[ClusterStart(e)] <= candidates[i]
                               /\ candidates[i] <= SortedRawOnsets[e]}) = 1

\* C13 witness: a consensus run with two clusters, both large enough: one
\* closed inside the list, the other the last one, each emitted once
C13_Witness ==
    /\ Returned
    /\ method = "consensus"
    /\ options.NumSlices = 0
    /\ Cardinality(LargeClusterEnds) >= 2
    /\ Len(SortedRawOnsets) \in LargeClusterEnds
    /\ Len(candidates) = 2

\* C14: in consensus mode with NumSlices = 0 and a minimum cluster size of 3,
\* every returned timestamp corresponds to a cluster of at least 3 raw onsets
\* that lie within a 50 ms window: its cluster holds three raw onsets no more
\* than 50 ms apart from first to last.
C14_ThreeOnsetsWithin50ms ==
    (pc \in {"optimize", "spacing", "return", "done"} /\ method = "consensus"
        /\ file.status = "ok" /\ options.NumSlices = 0 /\ MinClusterSize(options) = 3) =>
        \A i \in 1..Len(candidates) :
            \E e \in LargeClusterEnds :
                /\ SortedRawOnsets[ClusterStart(e)] <= candidates[i]
                /\ candidates[i] <= SortedRawOnsets[e]
                /\ \E j \in ClusterStart(e)..(e - 2) :
                       SortedRawOnsets[j + 2] - SortedRawOnsets[j] <= clusterThreshold

\* the methods that contributed an onset to the cluster ending at index e
ClusterMethods(e) ==
    {m \in OnsetKinds :
        \E k \in 1..Len(detectAllOnsets(det, m)) :
            /\ SortedRawOnsets[ClusterStart(e)] <= detectAllOnsets(det, m)[k]
            /\ detectAllOnsets(det, m)[k] <= SortedRawOnsets[e]}

\* C15: MinConsensusClusterSize is the minimum number of methods that must
\* agree: a consensus onset is emitted only for a cluster to which at least
\* MinConsensusClusterSize distinct methods each contributed an onset.
C15_MethodsMustAgree ==
    (pc \in {"optimize", "spacing", "return", "done"} /\ method = "consensus"
        /\ file.status = "ok") =>
        \A i \in 1..Len(candidates) :
            \E e \in ClusterEnds :
                /\ SortedRawOnsets[ClusterStart(e)] <= candidates[i]
                /\ candidates[i] <= SortedRawOnsets[e]
                /\ Cardinality(ClusterMethods(e)) >= MinClusterSize(options)

\* the cluster of raw onsets ending at index e
ClusterAt(e) == SubSeq(SortedRawOnsets, ClusterStart(e), e)

MethodOrders ==
    {[i \in 1..Len(methods) |-> IF i = 1 THEN b ELSE IF i = b THEN 1 ELSE i] :
        b \in (2..5) \cup {Len(methods)}}
    \cup {[i \in 1..Len(methods) |-> (i % Len(methods)) + 1]}
    \cup {[i \in 1..Len(methods) |-> Len(methods) + 1 - i]}

\* the answers of the detectors when the methods are run in the given order:
\* the list merged at position i is that of the method at position order[i]
RunInOrder(order) ==
    [m \in OnsetKinds |->
        det[methods[order[CHOOSE i \in 1..Len(methods) : methods[i] = m]]]]

\* C18: the consensus result does not depend on the order in which the nine
\* methods are run or merged: every permutation of the per-method lists gives
\* the same clusters and the same emitted timestamps.
C18_MergeOrderIrrelevant ==
    (pc = "optimize" /\ method = "consensus" /\ file.status = "ok") =>
        LET emitted == findConsensusOnsets(samples, sampleRate, options, det)
            sorted == SortedRawOnsets
        IN  \A order \in MethodOrders :
                /\ findConsensusOnsets(samples, sampleRate, options, RunInOrder(order))
                       = emitted
                /\ (Len(sorted) > 0 =>
                       Clusters(SortAsc(MergedOnsets(RunInOrder(order)))) = Clusters(sorted))

\* C18 witness: a consensus run emitted an onset from lists that are merged
\* out of time order, and some order of the methods merges them differently
C18_Witness ==
    /\ Returned
    /\ method = "consensus"
    /\ Len(candidates) >= 1
    /\ MergedOnsets(det) # SortedRawOnsets
    /\ \E order \in MethodOrders :
           MergedOnsets(RunInOrder(order)) # MergedOnsets(det)

\* numbers of samples left after a candidate in the shortened buffers the
\* candidates are also refined in (the search window then ends with the buffer)
TailProbes == {1, 3, 7}

\* the first length samples of the buffer
Shortened(length) == SubSeq(samples, 1, length)

\* C19: every onset AnalyzeSlices returns lies within the audio duration,
\* 0 <= t <= len(Samples) / SampleRate, for every method, refined or not; also
\* when the buffer ends so soon after a candidate that the search window is
\* cut at the end of the buffer.
C19_OnsetsWithinDuration ==
    /\ Returned =>
           \A i \in 1..Len(result.Onsets) :
               /\ 0 <= result.Onsets[i]
               /\ result.Onsets[i]
                      <= TimeOfSample(Len(result.Samples), result.SampleRate)
    /\ (pc = "optimize" /\ file.status = "ok" /\ options.Optimize) =>
           \A tail \in TailProbes :
               \A i \in 1..Len(candidates) :
                   LET length == SampleOfTime(candidates[i], sampleRate) + tail
                       position ==
                           findOptimalOnsetPosition(Shortened(length), sampleRate,
                                                    candidates[i], options.OptimizeWindowMs)
                   IN  0 <= position /\ position <= TimeOfSample(length, sampleRate)

\* C19 witness: a run returned an onset that refinement moved, found in a
\* search window cut at the start of the buffer; in the buffer shortened to end
\* three samples after that candidate the window is cut at the end and the
\* candidate is moved as well
C19_Witness ==
    /\ Returned
    /\ "optimize" \in Range(trace)
    /\ \E i \in 1..Len(candidates) :
           LET onsetSample == SampleOfTime(candidates[i], sampleRate)
               halfWindow == Trunc(MsToSamples(options.OptimizeWindowMs, sampleRate), 2)
           IN  /\ onsetSample - halfWindow < 0
               /\ RefineWindow(samples, sampleRate, candidates[i],
                               options.OptimizeWindowMs).start = 0
               /\ refined[i] # candidates[i]
               /\ refined[i] \in Range(result.Onsets)
               /\ onsetSample + halfWindow > onsetSample + 3
               /\ RefineWindow(Shortened(onsetSample + 3), sampleRate, candidates[i],
                               options.OptimizeWindowMs).end = onsetSample + 3
               /\ findOptimalOnsetPosition(Shortened(onsetSample + 3), sampleRate,
                                           candidates[i], options.OptimizeWindowMs)
                      # candidates[i]

\* C20 (under SpecDetect): over any sequence of Do calls on one detector two
\* emitted onsets are never closer than the minimum inter-onset interval: the
\* detection after one at sample p is stamped p + min-IOI samples or later, so
\* every list detectOnsetsInternal returns to the analyzer has consecutive gaps
\* of at least 10 ms.
C20_MinimumInterOnsetInterval ==
    /\ \A i \in 1..(Len(onsets) - 1) :
           /\ onsets[i + 1] - onsets[i] >= MsToTicks(minioi)
           /\ SampleOfTime(onsets[i + 1], sampleRate)
                  >= SampleOfTime(onsets[i], sampleRate) + MsToSamples(minioi, sampleRate)
    /\ pc = "returned" => onsets \in DetectorRuns(Len(samples), sampleRate)
    /\ pc = "construct" =>
           \A run \in DetectorRuns(Len(samples), sampleRate) :
               \A i \in 1..(Len(run) - 1) : run[i + 1] - run[i] >= MsToTicks(minioi)

\* C20 witness: the loop returned two onsets as close as the interval allows,
\* the interval being longer than a hop: a detection one hop earlier was held
\* back by it
C20_Witness ==
    /\ pc = "returned"
    /\ o.minioi > hopSize
    /\ \E i \in 1..(Len(onsets) - 1) :
           /\ SampleOfTime(onsets[i + 1], sampleRate) - SampleOfTime(onsets[i], sampleRate)
                  >= o.minioi
           /\ SampleOfTime(onsets[i + 1], sampleRate) - SampleOfTime(onsets[i], sampleRate)
                  - hopSize < o.minioi

\* the index sets K the claim describes for a list: the first index, and a
\* later index iff its onset is at least spacing after the onset at the
\* greatest index of K before it
KeptIndexSets(list, spacing) ==
    {K \in SUBSET (1..Len(list)) :
        /\ (Len(list) > 0 => 1 \in K)
        /\ \A i \in 2..Len(list) :
               LET lastKept == CHOOSE k \in K : k < i /\ \A j \in K : j < i => j <= k
               IN  (i \in K) <=> (list[i] - list[lastKept] >= spacing)}

\* C21 (under SpecCalls): applyMinimumSpacing keeps the first onset and keeps a
\* later onset iff it is at least MinimumSpacing ms after the last kept onset;
\* what it returns is the subsequence of its argument at those indices, in the
\* argument's order, and so is never longer than the list a run with
\* UseMinimumSpacing = false returns.
C21_KeepsIffSpacedFromLastKept ==
    pc = "applied" =>
        /\ \E K \in KeptIndexSets(candidates, MsToTicks(options.MinimumSpacing)) :
               ret = Subsequence(candidates, K)
        /\ Len(ret) <= Len(SpacingStage([options EXCEPT !.UseMinimumSpacing = FALSE],
                                        candidates))

\* C21 witness: an onset was dropped, and the next one was kept although it is
\* closer than the spacing to the dropped one: it is far enough from the last
\* kept one
C21_Witness ==
    /\ pc = "applied"
    /\ \E i \in 2..(Len(candidates) - 1) :
           /\ candidates[i] - candidates[1] < MsToTicks(options.MinimumSpacing)
           /\ candidates[i + 1] - candidates[i] < MsToTicks(options.MinimumSpacing)
           /\ candidates[i + 1] - candidates[i] > 0
           /\ \A j \in 2..i : candidates[j] - candidates[1] < MsToTicks(options.MinimumSpacing)
           /\ candidates[i + 1] - candidates[1] >= MsToTicks(options.MinimumSpacing)
           /\ ret = <<candidates[1], candidates[i + 1]>> \o SubSeq(ret, 3, Len(ret))
           /\ Len(ret) >= 2

\* C28 (under SpecCalls): applyMinimumSpacing is idempotent: called again with
\* the same spacing on the list it returned, it returns that list unchanged,
\* for every list (sorted or not) and every spacing (negative and zero
\* included).
C28_SpacingIsIdempotent ==
    pc = "applied_again" => onsets = ret

\* C28 witness: the first call dropped an onset from an unsorted list and kept
\* three, and the second call was made on what it returned
C28_Witness ==
    /\ pc = "applied_again"
    /\ Len(ret) < Len(candidates)
    /\ Len(ret) >= 3
    /\ ~(\A i \in 1..(Len(candidates) - 1) : candidates[i] <= candidates[i + 1])
    /\ options.MinimumSpacing > 0

\* the split points the claim names for the window of a candidate
SplitPoints(onsetTime) ==
    LET w == RefineWindow(samples, sampleRate, onsetTime, options.OptimizeWindowMs)
    IN  IF w.end - w.start < minWindow THEN {}
        ELSE {m \in w.start..w.end : w.start + minMargin <= m /\ m < w.end - minMargin}

\* (variance right of the split m) - (variance left of it), in the window of
\* the candidate
SplitDiff(onsetTime, m) ==
    LET w == RefineWindow(samples, sampleRate, onsetTime, options.OptimizeWindowMs)
    IN  FracSub(calculateVariance(samples, m, w.end), calculateVariance(samples, w.start, m))

\* C22 (under SpecCalls): for each onset whose clipped window has split points
\* in [windowStart + 5, windowEnd - 5), the refined position is one of them, no
\* split point has a greater (right variance) - (left variance), and every
\* earlier split point has a smaller one: the earliest maximum is returned.
C22_EarliestMaximumSplit ==
    pc = "optimized" =>
        \A i \in 1..Len(candidates) :
            SplitPoints(candidates[i]) # {} =>
                \E p \in SplitPoints(candidates[i]) :
                    /\ ret[i] = TimeOfSample(p, sampleRate)
                    /\ \A q \in SplitPoints(candidates[i]) :
                           /\ ~FracLess(SplitDiff(candidates[i], p), SplitDiff(candidates[i], q))
                           /\ q < p => FracLess(SplitDiff(candidates[i], q),
                                                SplitDiff(candidates[i], p))

\* C22 witness: the maximum is reached at two split points, neither the first
\* of the window, and the earlier of the two was returned
C22_Witness ==
    /\ pc = "optimized"
    /\ \E i \in 1..Len(candidates) :
           \E p, q \in SplitPoints(candidates[i]) :
               /\ ret[i] = TimeOfSample(p, sampleRate)
               /\ p < q
               /\ \E first \in SplitPoints(candidates[i]) : first < p
               /\ SplitDiff(candidates[i], p)[1] * SplitDiff(candidates[i], q)[2]
                      = SplitDiff(candidates[i], q)[1] * SplitDiff(candidates[i], p)[2]
               /\ ret[i] # candidates[i]

\* four times the quartile q (1 or 3) of a sorted list of two or more values:
\* the linear interpolation at rank q * (n - 1) / 4
Quartile4(sorted, q) ==
    LET position == q * (Len(sorted) - 1)
        lower == position \div 4
        part == position % 4
    IN  IF part = 0 THEN 4 * sorted[lower + 1]
        ELSE (4 - part) * sorted[lower + 1] + part * sorted[lower + 2]

\* the values of the cluster inside the Tukey fence [Q1 - 1.5 IQR, Q3 + 1.5 IQR]
\* (the inequalities multiplied by 8)
InsideFence(cluster) ==
    LET q1 == Quartile4(SortAsc(cluster), 1)
        q3 == Quartile4(SortAsc(cluster), 3)
    IN  SelectSeq(cluster, LAMBDA value :
            /\ 8 * value >= 2 * q1 - 3 * (q3 - q1)
            /\ 8 * value <= 2 * q3 + 3 * (q3 - q1))

\* C23 (under SpecCalls): the representative of a cluster of fewer than 4
\* onsets is the mean of all of them; of 4 or more it is the mean of the onsets
\* inside the Tukey fence built on the interpolated quartiles of the sorted
\* cluster, or the mean of the whole cluster if none is inside.
C23_MeanInsideTukeyFence ==
    (pc = "midpoint" /\ Len(candidates) > 0) =>
        LET averaged == IF Len(candidates) < 4 THEN candidates
                        ELSE IF Len(InsideFence(candidates)) = 0 THEN candidates
                        ELSE InsideFence(candidates)
        IN  ret * Len(averaged) = SumSeq(averaged)

\* C23 witness: a cluster of four or more onsets whose first quartile lies
\* between two of them, from which the fence excludes an onset, so that the
\* representative is not the mean of the whole cluster
C23_Witness ==
    /\ pc = "midpoint"
    /\ Len(candidates) >= 4
    /\ (Len(candidates) - 1) % 4 # 0
    /\ Quartile4(SortAsc(candidates), 1) \notin {4 * t : t \in Range(candidates)}
    /\ Len(InsideFence(candidates)) < Len(candidates)
    /\ ret * Len(candidates) # SumSeq(candidates)

\* C26 (under SpecCalls): for a cluster of 4 or more onsets removeOutliers
\* keeps at least one onset, because some onset lies between the first and the
\* third quartile; cleanedCluster is never empty at line 503 and the mean is
\* taken over a non-empty list.
C26_OutlierRemovalKeepsOne ==
    (pc = "midpoint" /\ Len(candidates) >= 4) =>
        /\ Len(refined) >= 1
        /\ \E i \in 1..Len(candidates) :
               /\ Quartile4(SortAsc(candidates), 1) <= 4 * candidates[i]
               /\ 4 * candidates[i] <= Quartile4(SortAsc(candidates), 3)
               /\ candidates[i] \in Range(refined)
        /\ ret * Len(refined) = SumSeq(refined)

\* C26 witness: a cluster whose quartiles coincide, so that the fence is a
\* single point, and which still holds another onset: that onset is removed,
\* the onsets at the quartiles are kept
C26_Witness ==
    /\ pc = "midpoint"
    /\ Len(candidates) >= 4
    /\ Quartile4(SortAsc(candidates), 1) = Quartile4(SortAsc(candidates), 3)
    /\ Len(refined) < Len(candidates)
    /\ Len(refined) >= 1

\* the number of samples of the window of windowMs centred on the sample and
\* clipped to a buffer of the given length
ClippedWindowSize(sample, halfWindow, length) ==
    (IF sample + halfWindow > length THEN length ELSE sample + halfWindow)
        - (IF sample - halfWindow < 0 THEN 0 ELSE sample - halfWindow)

EnergyWindowEmpty(onsetTime) ==
    LET first == SampleOfTime(onsetTime, sampleRate)
        last == first + MsToSamples(energyWindowMs, sampleRate) - 1
    IN  \A i \in first..last : i < 0 \/ i >= Len(samples)

\* C30 (under SpecCalls): calculateOnsetEnergy, findOptimalOnsetPosition and
\* calculateVariance read samples[i] only for 0 <= i < len(samples), for every
\* onset time (negative, inside, at the end of the buffer, past it) and every
\* buffer (the empty one included); calculateOnsetEnergy returns 0 when its
\* window holds no sample.
C30_ReadsInsideBuffer ==
    /\ pc \in {"optimized", "energy"} =>
           \A i \in reads : 0 <= i /\ i < Len(samples)
    /\ pc = "energy" =>
           \A i \in 1..Len(candidates) :
               EnergyWindowEmpty(candidates[i]) => ret[i][1] = 0

\* C30 witness: calculateOnsetEnergy was called for a negative time, whose
\* window was cut at the start of the buffer and read, and for a time past the
\* end of the buffer, for which it returned 0
C30_Witness ==
    /\ pc = "energy"
    /\ Len(samples) > 0
    /\ reads # {}
    /\ \E i, j \in 1..Len(candidates) :
           /\ candidates[i] < 0
           /\ ~EnergyWindowEmpty(candidates[i])
           /\ SampleOfTime(candidates[j], sampleRate) > Len(samples)
           /\ ret[j][1] = 0

\* C27 (under SpecCalls): the timestamps findConsensusOnsets returns, before
\* any refinement, are strictly increasing and any two consecutive ones are
\* more than 50 ms apart, also when NumSlices > 0 selects some of the cluster
\* centers.
C27_ConsensusOnsetsApart ==
    pc = "consensus" =>
        \A i \in 1..(Len(ret) - 1) :
            /\ ret[i] < ret[i + 1]
            /\ ret[i + 1] - ret[i] > clusterThreshold

\* C27 witness: three clusters were large enough, NumSlices = 2 selected two
\* of the three centers, the first of them left out, and a cluster center lies
\* strictly between two raw onsets
C27_Witness ==
    /\ pc = "consensus"
    /\ options.NumSlices = 2
    /\ Len(ret) = 2
    /\ LET centers == ConsensusMidpoints(SortAsc(MergedOnsets(det)), MinClusterSize(options))
       IN  /\ Len(centers) = 3
           /\ ret = <<centers[2], centers[3]>>
           /\ \E k \in 1..3 : centers[k] \notin Range(MergedOnsets(det))

\* C24 (under SpecDetect): when detectOnsetsInternal returns, the lookahead
\* of the peak picker has been drained: for every hop that was fed, from the
\* one that fills the picker's window on, the onset stamped with that hop's
\* time can have been emitted, the last hops of the buffer included.
C24_LookaheadDrained ==
    pc = "returned" =>
        \A f \in (peakWindow - lookahead)..Len(fed) :
            TimeOfSample(f * hopSize, sampleRate) \in DetectorSlots(Len(samples), sampleRate)

\* the hop starts detectOnsetsInternal feeds for a buffer of the given length
ExpectedHops(length) == {k * hopSize : k \in {j \in 0..length : j * hopSize + hopSize < length}}

\* C25 (under SpecDetect): detectOnsetsInternal feeds the detector exactly the
\* hops starting at 0, H, 2H, ... with pos + H < L, in that order; a buffer of
\* at most H samples is never fed and yields no onsets; the hop that ends with
\* the buffer is not fed, also when L is a multiple of H; no fed hop is filled
\* up with zeros.
C25_HopsFed ==
    /\ pc = "returned" => fed = SetToSortedSeq(ExpectedHops(Len(samples)))
    /\ Range(fed) \subseteq ExpectedHops(Len(samples))
    /\ \A i \in 1..Len(fed) : ZeroPadded(samples, fed[i]) = {}
    /\ Len(samples) <= hopSize => (fed = << >> /\ onsets = << >>)
    /\ \A i \in 1..Len(fed) : fed[i] + hopSize # Len(samples)

\* C25 witness: a buffer of a whole number of hops, at least six, was
\* processed: all hops but the last were fed and an onset was returned
C25_Witness ==
    /\ pc = "returned"
    /\ Len(samples) % hopSize = 0
    /\ Len(samples) >= 6 * hopSize
    /\ Len(fed) = Len(samples) \div hopSize - 1
    /\ fed[Len(fed)] = Len(samples) - 2 * hopSize
    /\ Len(onsets) >= 1


====
